---- MODULE Spec2Model ----
(***************************************************************************)
(* A model of pip-compile-multi (src/pipcompilemulti.py).                  *)
(*                                                                         *)
(* Text is modelled at character level: a Python str is a sequence of      *)
(* one-character strings, a file is the str of its content, and iterating  *)
(* a file yields its lines with their line terminators, as Python does.    *)
(* A dict is a function whose DOMAIN is the set of keys.                   *)
(***************************************************************************)
EXTENDS Integers, Sequences, FiniteSets, TLC

VARIABLES
    pc,               \* where the entry point being run stands
    args,             \* arguments of the function called directly
    ret,              \* its return value, or the exception it raised
    OPTIONS,          \* the global options table
    files,            \* the file system: path |-> text
    env_confs,        \* discover()'s list of environments
    pinned_packages,  \* recompile's table: environment name |-> packages
    env,              \* the Environment object being locked or verified
    log,              \* the records logged at level ERROR
    history           \* history: what the steps taken so far read and wrote

vars == <<pc, args, ret, OPTIONS, files, env_confs, pinned_packages, env, log,
          history>>

(***************************************************************************)
(* Python str primitives                                                   *)
(***************************************************************************)

\* The characters the model uses, in code point order.
Ascii ==
    << "\t", "\n", " ", "#", "*", "+", ",", "-", ".",
       "/",
       "0", "1", "2", "3", "4", "5", "6", "7", "8", "9", ":", "=", "?", "@",
       "A", "H", "P", "S", "T", "\\", "_",
       "a", "b", "c", "d", "e", "f", "g", "h", "i", "j", "k", "l", "m",
       "n", "o", "p", "q", "r", "s", "t", "u", "v", "w", "x", "y", "z", "~" >>

Digits == {"0", "1", "2", "3", "4", "5", "6", "7", "8", "9"}

Letters ==
    {"a", "b", "c", "d", "e", "f", "g", "h", "i", "j", "k", "l", "m",
     "n", "o", "p", "q", "r", "s", "t", "u", "v", "w", "x", "y", "z"}

Ord(c) == CHOOSE i \in 1..Len(Ascii) : Ascii[i] = c

\* str < str
RECURSIVE StrLess(_, _)
StrLess(s, t) ==
    IF t = <<>> THEN FALSE
    ELSE IF s = <<>> THEN TRUE
    ELSE IF Head(s) = Head(t) THEN StrLess(Tail(s), Tail(t))
    ELSE Ord(Head(s)) < Ord(Head(t))

\* sorted(set of str)
RECURSIVE SortedStrs(_)
SortedStrs(S) ==
    IF S = {} THEN <<>>
    ELSE LET m == CHOOSE x \in S : \A y \in S \ {x} : StrLess(x, y)
         IN  <<m>> \o SortedStrs(S \ {m})

IsSpace(c) == c \in {" ", "\t", "\n"}

RECURSIVE LStrip(_)
LStrip(s) == IF s # <<>> /\ IsSpace(Head(s)) THEN LStrip(Tail(s)) ELSE s

RECURSIVE RStrip(_)
RStrip(s) ==
    IF s # <<>> /\ IsSpace(s[Len(s)]) THEN RStrip(SubSeq(s, 1, Len(s) - 1)) ELSE s

Strip(s) == LStrip(RStrip(s))

StartsWith(s, p) == Len(s) >= Len(p) /\ SubSeq(s, 1, Len(p)) = p

\* s[i:] starts with p (i is a 0-based Python index)
StartsWithAt(s, i, p) ==
    i + Len(p) <= Len(s) /\ SubSeq(s, i + 1, i + Len(p)) = p

EndsWith(s, p) == Len(s) >= Len(p) /\ SubSeq(s, Len(s) - Len(p) + 1, Len(s)) = p

\* str.find: the lowest 0-based index of sub in s, -1 when absent
Find(s, sub) ==
    LET hits == {i \in 0..Len(s) : StartsWithAt(s, i, sub)}
    IN  IF hits = {} THEN -1 ELSE CHOOSE i \in hits : \A j \in hits : i <= j

Contains(s, sub) == Find(s, sub) >= 0

\* ''.join(parts)
RECURSIVE Cat(_)
Cat(parts) == IF parts = <<>> THEN <<>> ELSE Head(parts) \o Cat(Tail(parts))

\* sep.join(parts)
RECURSIVE Join(_, _)
Join(sep, parts) ==
    IF parts = <<>> THEN <<>>
    ELSE IF Len(parts) = 1 THEN parts[1]
    ELSE parts[1] \o sep \o Join(sep, Tail(parts))

\* str.split(): the maximal runs of non-whitespace
RECURSIVE SplitWs(_)
SplitWs(s) ==
    LET t == LStrip(s)
    IN  IF t = <<>> THEN <<>>
        ELSE LET stops == {i \in 1..Len(t) : IsSpace(t[i])}
                 e == IF stops = {} THEN Len(t) + 1
                      ELSE CHOOSE i \in stops : \A j \in stops : i <= j
             IN  <<SubSeq(t, 1, e - 1)>> \o SplitWs(SubSeq(t, e, Len(t)))

\* `for line in fp`: the lines of a text, each with its "\n" (the last may lack it)
RECURSIVE Lines(_)
Lines(text) ==
    IF text = <<>> THEN <<>>
    ELSE LET nls == {i \in 1..Len(text) : text[i] = "\n"}
             e == IF nls = {} THEN Len(text)
                  ELSE CHOOSE i \in nls : \A j \in nls : i <= j
         IN  <<SubSeq(text, 1, e)>> \o Lines(SubSeq(text, e + 1, Len(text)))

\* str.ljust(width)
RECURSIVE LJust(_, _)
LJust(s, width) == IF Len(s) >= width THEN s ELSE LJust(s \o <<" ">>, width)

\* str.lower() on the model's alphabet
LowerChar(c) ==
    CASE c = "A" -> "a" [] c = "H" -> "h" [] c = "P" -> "p" [] c = "S" -> "s"
      [] c = "T" -> "t"
      [] OTHER -> c

Lower(s) == [i \in 1..Len(s) |-> LowerChar(s[i])]

Range(f) == {f[x] : x \in DOMAIN f}

(***************************************************************************)
(* toposort.toposort_flatten, the third-party routine order_by_refs calls  *)
(***************************************************************************)

\* toposort(): the successive sets of items that depend on nothing left, or
\* CircularDependencyError when items remain that all depend on something.
RECURSIVE toposort_levels(_)
toposort_levels(data) ==
    LET ordered == {item \in DOMAIN data : data[item] = {}}
    IN  IF ordered = {}
        THEN IF DOMAIN data = {} THEN [error |-> "", levels |-> <<>>]
             ELSE [error |-> "CircularDependencyError", levels |-> <<>>]
        ELSE LET rest == toposort_levels(
                     [item \in DOMAIN data \ ordered |-> data[item] \ ordered])
             IN  [error |-> rest.error, levels |-> <<ordered>> \o rest.levels]

toposort_flatten(data) ==
    LET noself == [k \in DOMAIN data |-> data[k] \ {k}]
        extra  == UNION Range(noself) \ DOMAIN data
        full   == [k \in DOMAIN data \cup extra |->
                      IF k \in DOMAIN data THEN noself[k] ELSE {}]
        res    == toposort_levels(full)
    IN  [error |-> res.error,
         value |-> IF res.error = "" THEN
                       Cat([i \in 1..Len(res.levels) |-> SortedStrs(res.levels[i])])
                   ELSE <<>>]

(***************************************************************************)
(* order_by_refs                                                           *)
(***************************************************************************)

\* The mutant: environments listed by name, whatever they reference.
order_by_refs_unsorted(envs) ==
    [error |-> "",
     value |-> LET names == SortedStrs({envs[i].name : i \in 1..Len(envs)})
               IN  [k \in 1..Len(names) |->
                       CHOOSE e \in Range(envs) : e.name = names[k]]]

\* envs: a list of {'name': str, 'refs': set of str} with distinct names.
order_by_refs(envs) ==
    LET topology == [n \in {envs[i].name : i \in 1..Len(envs)} |->
                        (CHOOSE e \in Range(envs) : e.name = n).refs]
        by_name  == [n \in DOMAIN topology |->
                        CHOOSE e \in Range(envs) : e.name = n]
        flat     == toposort_flatten(topology)
    IN  IF flat.error # "" THEN [error |-> flat.error, value |-> <<>>]
        ELSE IF \E k \in 1..Len(flat.value) : flat.value[k] \notin DOMAIN by_name
        THEN [error |-> "KeyError", value |-> <<>>]
        ELSE [error |-> "", value |-> [k \in 1..Len(flat.value) |-> by_name[flat.value[k]]]]

(***************************************************************************)
(* merged_packages                                                         *)
(***************************************************************************)

\* Tuples of str compare item by item, as Python compares tuples.
RECURSIVE TupleLess(_, _)
TupleLess(p, q) ==
    IF q = <<>> THEN FALSE
    ELSE IF p = <<>> THEN TRUE
    ELSE IF Head(p) = Head(q) THEN TupleLess(Tail(p), Tail(q))
    ELSE StrLess(Head(p), Head(q))

RECURSIVE InsertSorted(_, _)
InsertSorted(sorted, t) ==
    IF sorted = <<>> THEN <<t>>
    ELSE IF TupleLess(t, Head(sorted)) THEN <<t>> \o sorted
    ELSE <<Head(sorted)>> \o InsertSorted(Tail(sorted), t)

\* sorted(list of tuples)
RECURSIVE SortedTuples(_)
SortedTuples(l) ==
    IF l = <<>> THEN <<>> ELSE InsertSorted(SortedTuples(Tail(l)), Head(l))

\* list(a set), in some order
RECURSIVE AsList(_)
AsList(S) ==
    IF S = {} THEN <<>>
    ELSE LET x == CHOOSE y \in S : TRUE IN <<x>> \o AsList(S \ {x})

\* list(d.items())
Items(d) ==
    LET keys == SortedStrs(DOMAIN d)
    IN  [k \in 1..Len(keys) |-> <<keys[k], d[keys[k]]>>]

\* The mutant: a later version silently replaces an earlier one.
RECURSIVE MergeLoopLastWins(_, _, _)
MergeLoopLastWins(combined, result, errors) ==
    IF combined = <<>> THEN [result |-> result, errors |-> errors]
    ELSE MergeLoopLastWins(Tail(combined),
             [n \in DOMAIN result \cup {Head(combined)[1]} |->
                 IF n = Head(combined)[1] THEN Head(combined)[2] ELSE result[n]],
             errors)

\* The loop of merged_packages over the sorted (name, version) pairs.
RECURSIVE MergeLoop(_, _, _)
MergeLoop(combined, result, errors) ==
    IF combined = <<>> THEN [result |-> result, errors |-> errors]
    ELSE LET name    == Head(combined)[1]
             version == Head(combined)[2]
         IN  IF name \in DOMAIN result
             THEN MergeLoop(Tail(combined), result,
                            IF result[name] # version
                            THEN errors \cup {<<name, version, result[name]>>}
                            ELSE errors)
             ELSE MergeLoop(Tail(combined),
                            [n \in DOMAIN result \cup {name} |->
                                IF n = name THEN version ELSE result[n]],
                            errors)

\* env_packages: name |-> (package |-> version); names: a set of names.
\* Returns the union, or raises after logging every (package, version, version).
merged_packages(env_packages, names) ==
    IF ~(names \subseteq DOMAIN env_packages)
    THEN [error |-> "KeyError", value |-> <<>>, logged |-> <<>>]
    ELSE LET order    == SortedStrs(names)
             combined == SortedTuples(
                             Cat([k \in 1..Len(order) |-> Items(env_packages[order[k]])]))
             merged   == MergeLoop(combined, <<>>, {})
         IN  IF merged.errors # {}
             THEN [error |-> "RuntimeError", value |-> <<>>,
                   logged |-> SortedTuples(AsList(merged.errors))]
             ELSE [error |-> "", value |-> merged.result, logged |-> <<>>]

(***************************************************************************)
(* class Dependency                                                        *)
(***************************************************************************)

COMMENT_JUSTIFICATION == 26

NonSpace(line, a, b) == \A x \in a..b : ~IsSpace(line[x])
AllSpace(line, a, b) == \A x \in a..b : IsSpace(line[x])

\* (?P<comment>#.*)?$ matches line[m+1..]: nothing is left, or only the final
\* newline, or a comment that runs to the end of the line.
CommentMatches(line, m) ==
    LET n == Len(line)
    IN  \/ m = n
        \/ m = n - 1 /\ line[n] = "\n"
        \/ /\ m < n /\ line[m + 1] = "#"
           /\ \A x \in (m + 1)..(n - 1) : line[x] # "\n"

HashFlag == <<"-", "-", "h", "a", "s", "h", "=">>

\* The last position of the run of non-blanks (of blanks) that starts at a;
\* a - 1 when there is none.
RECURSIVE NonSpaceEnd(_, _)
NonSpaceEnd(line, a) ==
    IF a > Len(line) \/ IsSpace(line[a]) THEN a - 1 ELSE NonSpaceEnd(line, a + 1)

RECURSIVE SpaceEnd(_, _)
SpaceEnd(line, a) ==
    IF a > Len(line) \/ ~IsSpace(line[a]) THEN a - 1 ELSE SpaceEnd(line, a + 1)

\* The positions where (?:--hash=\S+\s*)+ can end when it starts after s: one
\* --hash=\S+\s* ends inside its run of non-blanks or in the blanks after it,
\* and another may follow.
RECURSIVE HashEnds(_, _)
HashEnds(line, s) ==
    IF ~StartsWithAt(line, s, HashFlag) THEN {}
    ELSE LET first == s + Len(HashFlag) + 1
             last  == NonSpaceEnd(line, first)
             once  == IF last < first THEN {}
                      ELSE (first..last) \cup (last..SpaceEnd(line, last + 1))
         IN  once \cup UNION {HashEnds(line, e2) : e2 \in once}

Max(S) == CHOOSE x \in S : \A y \in S : y <= x

\* Where the hashes that start after k end: greedy matching takes the longest
\* run of --hash=... after which the comment, or the end, follows; k itself
\* when there are no hashes.
HashesEnd(line, k) ==
    LET ms == {m \in HashEnds(line, k) : CommentMatches(line, m)}
    IN  IF ms = {} THEN k ELSE Max(ms)

\* What follows the version, which ends at j: \s*, the hashes if any, the
\* comment if any, $.  The ends k of the white space with which that matches.
RestStarts(line, j) ==
    {k \in j..SpaceEnd(line, j + 1) :
        \/ CommentMatches(line, k)
        \/ \E m \in HashEnds(line, k) : CommentMatches(line, m)}

\* The ends j of a version that starts after package line[1..i] and ==.
VersionEnds(line, i) ==
    {j \in (i + 3)..NonSpaceEnd(line, 1) : RestStarts(line, j) # {}}

\* The ends i of a package: == follows and a version can.
PackageEnds(line) ==
    {i \in 1..NonSpaceEnd(line, 1) :
        StartsWithAt(line, i, <<"=", "=">>) /\ VersionEnds(line, i) # {}}

\* The groups of the match with package line[1..i], version line[i+3..j],
\* white space up to k: greedy \s* takes the most white space.
PinGroups(line, i, j, k) ==
    [matched |-> TRUE,
     package |-> SubSeq(line, 1, i),
     version |-> SubSeq(line, i + 3, j),
     hashes  |-> SubSeq(line, k + 1, HashesEnd(line, k)),
     comment |-> SubSeq(line, HashesEnd(line, k) + 1, Len(line))]

PinWithVersion(line, i, j) == PinGroups(line, i, j, Max(RestStarts(line, j)))

PinWithPackage(line, i) == PinWithVersion(line, i, Max(VersionEnds(line, i)))

\* RE_DEPENDENCY.match(line): package \S+ and version \S+ are greedy, so the
\* match takes the longest package, then the longest version, that let the
\* rest match; both lie in the line's first run of non-blanks.
MatchDependency(line) ==
    IF PackageEnds(line) = {} THEN [matched |-> FALSE]
    ELSE PinWithPackage(line, Max(PackageEnds(line)))

EggFlag == <<"#", "e", "g", "g", "=">>

\* [a-z0-9-_.] under (?i)
IsEggChar(c) == LowerChar(c) \in Letters \cup Digits \cup {"-", "_", "."}

\* RE_VCS_DEPENDENCY after the optional -e and white space, from position
\* a + 1: in one run of non-blanks the prefix line[a+1..b] ending in #egg=, the
\* package line[b+1..c] and a postfix line[c+1..d] of at least one character,
\* then white space up to k, the comment if any, $.
VcsTailStarts(line, d) ==
    {k \in d..SpaceEnd(line, d + 1) : CommentMatches(line, k)}

VcsPostfixEnds(line, a, c) ==
    {d \in (c + 1)..NonSpaceEnd(line, a + 1) : VcsTailStarts(line, d) # {}}

VcsPackageEnds(line, a, b) ==
    {c \in (b + 1)..(NonSpaceEnd(line, a + 1) - 1) :
        (\A x \in (b + 1)..c : IsEggChar(line[x])) /\ VcsPostfixEnds(line, a, c) # {}}

VcsPrefixEnds(line, a) ==
    {b \in (a + Len(EggFlag) + 1)..NonSpaceEnd(line, a + 1) :
        /\ SubSeq(line, b - Len(EggFlag) + 1, b) = EggFlag
        /\ VcsPackageEnds(line, a, b) # {}}

\* Each group is greedy: the longest prefix, then the longest package, then
\* the longest postfix, then the most white space.
VcsGroups(line, b, c, d) ==
    [matched |-> TRUE,
     package |-> SubSeq(line, b + 1, c),
     comment |-> SubSeq(line, Max(VcsTailStarts(line, d)) + 1, Len(line))]

VcsWithPackage(line, a, b, c) == VcsGroups(line, b, c, Max(VcsPostfixEnds(line, a, c)))

VcsWithPrefix(line, a, b) == VcsWithPackage(line, a, b, Max(VcsPackageEnds(line, a, b)))

VcsFrom(line, a) == VcsWithPrefix(line, a, Max(VcsPrefixEnds(line, a)))

\* Where the prefix can start, in the order the regex tries: after -e and
\* white space (the most first), else after white space alone.
VcsStarts(line) ==
    (IF StartsWith(line, <<"-", "e">>)
     THEN [x \in 1..(SpaceEnd(line, 3) - 1) |-> SpaceEnd(line, 3) + 1 - x]
     ELSE <<>>)
    \o [x \in 1..(SpaceEnd(line, 1) + 1) |-> SpaceEnd(line, 1) + 1 - x]

\* RE_VCS_DEPENDENCY.match(line)
MatchVcsIn(line, tries) ==
    LET good == {x \in 1..Len(tries) : VcsPrefixEnds(line, tries[x]) # {}}
    IN  IF good = {} THEN [matched |-> FALSE]
        ELSE VcsFrom(line, tries[CHOOSE x \in good : \A y \in good : x <= y])

MatchVcs(line) == MatchVcsIn(line, VcsStarts(line))

\* Dependency.__init__, given what the two patterns matched
DependencyOf(line, regular, vcs) ==
    IF regular.matched
    THEN [valid |-> TRUE, is_vcs |-> FALSE,
          package |-> regular.package,
          version |-> Strip(regular.version),
          hashes  |-> Strip(regular.hashes),
          comment |-> Strip(regular.comment),
          line    |-> <<>>]
    ELSE IF vcs.matched
    THEN [valid |-> TRUE, is_vcs |-> TRUE,
          package |-> vcs.package,
          version |-> <<>>,
          hashes  |-> <<>>,
          comment |-> Strip(vcs.comment),
          line    |-> line]
    ELSE [valid |-> FALSE, is_vcs |-> FALSE, package |-> <<>>, version |-> <<>>,
          hashes |-> <<>>, comment |-> <<>>, line |-> <<>>]

\* Dependency.__init__
Dependency(line) == DependencyOf(line, MatchDependency(line), MatchVcs(line))

\* fnmatch.fnmatch(name, pat) for patterns made of literals, * and ?
RECURSIVE fnmatch(_, _)
fnmatch(name, pat) ==
    IF pat = <<>> THEN name = <<>>
    ELSE IF Head(pat) = "*"
    THEN \E k \in 0..Len(name) : fnmatch(SubSeq(name, k + 1, Len(name)), Tail(pat))
    ELSE /\ name # <<>>
         /\ Head(pat) = "?" \/ Head(pat) = Head(name)
         /\ fnmatch(Tail(name), Tail(pat))

\* Dependency.is_compatible, given OPTIONS['compatible_patterns']
is_compatible(dep, compatible_patterns) ==
    \E k \in 1..Len(compatible_patterns) :
        fnmatch(Lower(dep.package), compatible_patterns[k])

\* The mutant: only a version that ends in .post is cut.
drop_post_suffix_only(dep) ==
    IF EndsWith(dep.version, <<".", "p", "o", "s", "t">>)
    THEN [dep EXCEPT !.version = SubSeq(dep.version, 1, Len(dep.version) - 5)]
    ELSE dep

\* Dependency.drop_post
drop_post(dep) ==
    LET post_index == Find(dep.version, <<".", "p", "o", "s", "t">>)
    IN  IF post_index >= 0
        THEN [dep EXCEPT !.version = SubSeq(dep.version, 1, post_index)]
        ELSE dep

\* Dependency.without_editable
without_editable(line) ==
    IF Contains(line, <<"g", "i", "t", "+", "g", "i", "t", "@">>) THEN line
    ELSE IF StartsWith(line, <<"-", "e", " ">>) THEN SubSeq(line, 4, Len(line))
    ELSE line

Continuation == <<" ", "\\", "\n", " ", " ", " ", " ">>

\* The mutant: the hashes are written on lines of their own without the
\* backslash that continues the line.
SerializePin_no_backslash(dep, package_version) ==
    IF dep.hashes # <<>>
    THEN Join(<<"\n", " ", " ", " ", " ">>,
              <<Strip(package_version)>> \o SplitWs(dep.hashes)
              \o (IF dep.comment # <<>> THEN <<dep.comment>> ELSE <<>>))
    ELSE RStrip(LJust(package_version, COMMENT_JUSTIFICATION) \o dep.comment)

\* The pinned form of serialize, given '{package}{equal}{version}  '
SerializePin(dep, package_version) ==
    IF dep.hashes # <<>>
    THEN Join(Continuation,
              <<Strip(package_version)>> \o SplitWs(dep.hashes)
              \o (IF dep.comment # <<>> THEN <<dep.comment>> ELSE <<>>))
    ELSE RStrip(LJust(package_version, COMMENT_JUSTIFICATION) \o dep.comment)

\* Dependency.serialize, given OPTIONS['compatible_patterns']
serialize(dep, compatible_patterns) ==
    IF dep.is_vcs THEN Strip(without_editable(dep.line))
    ELSE SerializePin(dep,
             without_editable(dep.package)
             \o (IF is_compatible(dep, compatible_patterns)
                 THEN <<"~", "=">> ELSE <<"=", "=">>)
             \o dep.version \o <<" ", " ">>)

(***************************************************************************)
(* class Environment                                                       *)
(***************************************************************************)

\* Python's None, which no str equals.
None == <<"None">>

\* Environment.__init__
Environment(name, ignore, forbid_post, add_hashes) ==
    [name |-> name, ignore |-> ignore, forbid_post |-> forbid_post,
     add_hashes |-> add_hashes, packages |-> <<>>]

\* os.path.join(OPTIONS['base_dir'], '{0}.{1}'.format(name, ext))
PathOf(options, name, ext) == options.base_dir \o <<"/">> \o name \o <<".">> \o ext

\* Environment.infile, Environment.outfile
infile(options, name) == PathOf(options, name, options.in_ext)
outfile(options, name) == PathOf(options, name, options.out_ext)

\* Environment.concatenated: the logical lines of a text, and whether the text
\* ends inside a continuation (where the generator raises RuntimeError).
RECURSIVE ConcatLoop(_, _, _)
ConcatLoop(lines, line_parts, yielded) ==
    IF lines = <<>>
    THEN [yielded |-> yielded, error |-> IF line_parts # <<>> THEN "RuntimeError" ELSE ""]
    ELSE LET line == Strip(Head(lines))
         IN  IF EndsWith(line, <<"\\">>)
             THEN ConcatLoop(Tail(lines),
                             Append(line_parts, RStrip(SubSeq(line, 1, Len(line) - 1))),
                             yielded)
             ELSE ConcatLoop(Tail(lines), <<>>,
                             Append(yielded, Join(<<" ">>, Append(line_parts, line))))

concatenated(text) == ConcatLoop(Lines(text), <<>>, <<>>)

\* The mutant: a package of the ignore set is dropped without looking at versions.
fix_pin_no_conflict(e, options, line, dep) ==
    IF dep.valid /\ dep.package \in DOMAIN e.ignore
    THEN [error |-> "", dropped |-> TRUE, line |-> <<>>,
          packages |-> e.packages, logged |-> <<>>]
    ELSE [error |-> "", dropped |-> FALSE, line |-> Strip(line),
          packages |-> e.packages, logged |-> <<>>]

\* Environment.fix_pin after dep = Dependency(line): the line to write (or
\* dropped, for None), the packages table afterwards, and the conflict logged
\* when it raises RuntimeError.
fix_pin_dep(e, options, line, dep) ==
    IF dep.valid
    THEN IF dep.package \in DOMAIN e.ignore
         THEN IF /\ e.ignore[dep.package] # None
                 /\ dep.version # <<>>
                 /\ dep.version # e.ignore[dep.package]
              THEN [error |-> "RuntimeError", dropped |-> FALSE, line |-> <<>>,
                    packages |-> e.packages,
                    logged |-> << <<dep.package, dep.version, e.ignore[dep.package]>> >>]
              ELSE [error |-> "", dropped |-> TRUE, line |-> <<>>,
                    packages |-> e.packages, logged |-> <<>>]
         ELSE [error |-> "", dropped |-> FALSE,
               line |-> serialize(IF e.forbid_post
                                     \/ is_compatible(dep, options.compatible_patterns)
                                  THEN drop_post(dep) ELSE dep,
                                  options.compatible_patterns),
               packages |-> [p \in DOMAIN e.packages \cup {dep.package} |->
                                IF p = dep.package THEN dep.version
                                ELSE e.packages[p]],
               logged |-> <<>>]
    ELSE [error |-> "", dropped |-> FALSE, line |-> Strip(line),
          packages |-> e.packages, logged |-> <<>>]

\* Environment.fix_pin
fix_pin(e, options, line) == fix_pin_dep(e, options, line, Dependency(line))

\* The list comprehension of fix_lockfile: fix_pin on each logical line in turn,
\* stopping at the first one that raises.  r is what fix_pin returned for the
\* line before todo.
RECURSIVE FixLoop(_, _, _, _, _)
FixLoop(e, options, todo, kept, r) ==
    IF r.error # ""
    THEN [error |-> r.error, e |-> e, lines |-> kept, logged |-> r.logged]
    ELSE IF todo = <<>>
    THEN [error |-> "", e |-> [e EXCEPT !.packages = r.packages],
          lines |-> IF r.dropped THEN kept ELSE Append(kept, r.line),
          logged |-> <<>>]
    ELSE FixLoop([e EXCEPT !.packages = r.packages], options, Tail(todo),
                 IF r.dropped THEN kept ELSE Append(kept, r.line),
                 fix_pin([e EXCEPT !.packages = r.packages], options, Head(todo)))

\* Nothing written, nothing raised: before the first line.
NoPin(e) ==
    [error |-> "", dropped |-> TRUE, line |-> <<>>, packages |-> e.packages,
     logged |-> <<>>]

\* fix_lockfile, given the logical lines read and what fixing them gave.  The
\* file is rewritten only when nothing raised.
FixedFile(text, logical, fixed) ==
    IF fixed.error # ""
    THEN [error |-> fixed.error, e |-> fixed.e, text |-> text, logged |-> fixed.logged]
    ELSE IF logical.error # ""
    THEN [error |-> logical.error, e |-> fixed.e, text |-> text, logged |-> <<>>]
    ELSE [error |-> "", e |-> fixed.e,
          text |-> Cat([k \in 1..Len(fixed.lines) |-> fixed.lines[k] \o <<"\n">>]),
          logged |-> <<>>]

FixLogical(e, options, text, logical) ==
    FixedFile(text, logical, FixLoop(e, options, logical.yielded, <<>>, NoPin(e)))

\* Environment.fix_lockfile on the text of outfile: the Environment and the text
\* of outfile afterwards.
fix_lockfile(e, options, text) == FixLogical(e, options, text, concatenated(text))

\* Environment.split_header: the leading lines that start with #, and the rest.
split_header(text) ==
    LET lines      == Lines(text)
        stops      == {k \in 1..Len(lines) : ~StartsWith(lines[k], <<"#">>)}
        body_start == IF stops = {} THEN Len(lines)
                      ELSE (CHOOSE k \in stops : \A j \in stops : k <= j) - 1
    IN  [header |-> SubSeq(lines, 1, body_start),
         body   |-> SubSeq(lines, body_start + 1, Len(lines))]

\* The mutant: the new header is written in front of the old one.
replace_header_keep(text, header_text) == header_text \o text

\* Environment.replace_header: the text of outfile afterwards.
replace_header(text, header_text) == header_text \o Cat(split_header(text).body)

\* Environment.add_references: the text of outfile afterwards.
add_references(options, text, other_names) ==
    IF other_names = {} THEN text
    ELSE LET parts == split_header(text)
             names == SortedStrs(other_names)
         IN  Cat(parts.header)
             \o Cat([k \in 1..Len(names) |->
                        <<"-", "r", " ">> \o names[k] \o <<".">> \o options.out_ext
                        \o <<"\n">>])
             \o Cat(parts.body)

\* Environment.parse_references: RE_REF on each line of the input file; the
\* path is the first run of non-blanks after the flag, its extension cut.
RefFlagLen(line) ==
    IF StartsWith(line, <<"-", "r">>) THEN 2
    ELSE IF StartsWith(line, <<"-", "-", "r", "e", "q", "u", "i", "r", "e", "m", "e", "n", "t">>)
    THEN 13 ELSE 0

\* os.path.splitext(path)[0]
SplitextRoot(path) ==
    LET slashes == {k \in 1..Len(path) : path[k] = "/"}
        start   == IF slashes = {} THEN 0 ELSE Max(slashes)
        dots    == {k \in (start + 1)..Len(path) :
                       path[k] = "." /\ \E j \in (start + 1)..(k - 1) : path[j] # "."}
    IN  IF dots = {} THEN path ELSE SubSeq(path, 1, Max(dots) - 1)

parse_references(text) ==
    LET lines == Lines(text)
        RefOf(line) ==
            LET f      == RefFlagLen(line)
                starts == {a \in f..Len(line) :
                              AllSpace(line, f + 1, a) /\ a < Len(line)
                              /\ ~IsSpace(line[a + 1])}
            IN  IF f = 0 \/ starts = {} THEN {}
                ELSE LET a == Max(starts)
                         b == Max({x \in (a + 1)..Len(line) : NonSpace(line, a + 1, x)})
                     IN  {SplitextRoot(SubSeq(line, a + 1, b))}
    IN  UNION {RefOf(lines[k]) : k \in 1..Len(lines)}

(***************************************************************************)
(* The header and the hash comment                                         *)
(***************************************************************************)

\* DEFAULT_HEADER, after lstrip()
DEFAULT_HEADER ==
    <<"#", "\n">>
    \o <<"#", " ", "T", "h", "i", "s", " ", "f", "i", "l", "e", " ", "i", "s",
       " ", "a", "u", "t", "o", "g", "e", "n", "e", "r", "a", "t", "e", "d",
       " ", "b", "y", " ", "p", "i", "p", "-", "c", "o", "m", "p", "i", "l",
       "e", "-", "m", "u", "l", "t", "i", "\n">>
    \o <<"#", " ", "T", "o", " ", "u", "p", "d", "a", "t", "e", ",", " ", "r",
       "u", "n", ":", "\n">>
    \o <<"#", "\n">>
    \o <<"#", " ", " ", " ", " ", "p", "i", "p", "-", "c", "o", "m", "p", "i",
       "l", "e", "-", "m", "u", "l", "t", "i", "\n">>
    \o <<"#", "\n">>

HexDigits ==
    <<"0", "1", "2", "3", "4", "5", "6", "7", "8", "9", "a", "b", "c", "d", "e", "f">>

\* hashlib.sha1(content).hexdigest(), taken as free of collisions: a string of
\* hexadecimal digits that differs whenever the content differs (here two
\* digits for each character of the content).
sha1_hexdigest(content) ==
    Cat([i \in 1..Len(content) |->
            <<HexDigits[(Ord(content[i]) \div 16) + 1],
              HexDigits[(Ord(content[i]) % 16) + 1]>>])

HashCommentFlag == <<"#", " ", "S", "H", "A", "1", ":">>

\* generate_hash_comment, given the content of the file at file_path
generate_hash_comment(content) ==
    HashCommentFlag \o sha1_hexdigest(Strip(content)) \o <<"\n">>

\* parse_hash_comment, given the content of the file at file_path: the first
\* line that starts with "# SHA1:", None when the loop ends without one.
FirstHashComment(lines, hits) ==
    IF hits = {} THEN None
    ELSE lines[CHOOSE k \in hits : \A j \in hits : k <= j]

HashCommentLines(lines) ==
    {k \in 1..Len(lines) : StartsWith(lines[k], HashCommentFlag)}

parse_hash_comment(text) == FirstHashComment(Lines(text), HashCommentLines(Lines(text)))

(***************************************************************************)
(* Environment names and reference graphs                                  *)
(***************************************************************************)

Base  == <<"b", "a", "s", "e">>
Local == <<"l", "o", "c", "a", "l">>
Test  == <<"t", "e", "s", "t">>
\* A name that `-r` can mention without any input file of that name.
Other == <<"x">>

EnvNames == {Base, Local, Test}

\* Bound: how many references one environment declares in the graphs explored.
MaxRefs == 2

RefSets(pool) == {R \in SUBSET pool : Cardinality(R) <= MaxRefs}

\* The names reachable from n over one or more reference edges of graph g
\* (g: name |-> set of names), by fixpoint.
RECURSIVE ReachFrom(_, _)
ReachFrom(g, S) ==
    LET next == S \cup UNION {g[m] : m \in S \cap DOMAIN g}
    IN  IF next = S THEN S ELSE ReachFrom(g, next)

Reach(g, n) == ReachFrom(g, g[n])

Acyclic(g) == \A n \in DOMAIN g : n \notin Reach(g, n)

Closed(g) == \A n \in DOMAIN g : g[n] \subseteq DOMAIN g

GraphOf(envs) ==
    [n \in {envs[i].name : i \in 1..Len(envs)} |->
        (CHOOSE e \in Range(envs) : e.name = n).refs]

NoRet == [error |-> "not called"]

\* OPTIONS as the module sets it, with the extension and directory defaults.
DefaultOptions ==
    [compatible_patterns |-> <<>>,
     base_dir    |-> <<"r">>,
     forbid_post |-> {},
     add_hashes  |-> {},
     in_ext      |-> <<"i", "n">>,
     out_ext     |-> <<"t", "x", "t">>,
     header_file |-> None,
     include_names |-> {},
     upgrade     |-> TRUE]

NoOptions == DefaultOptions
NoEnv == [name |-> <<>>]

(***************************************************************************)
(* discover and recursive_refs                                             *)
(***************************************************************************)

\* os.path.basename
Basename(path) ==
    SubSeq(path, Max({0} \cup {k \in 1..Len(path) : path[k] = "/"}) + 1, Len(path))

\* extract_env_name
extract_env_name(file_path) == SplitextRoot(Basename(file_path))

\* glob.glob(os.path.join(OPTIONS['base_dir'], '*.' + OPTIONS['in_ext'])): the
\* files of base_dir whose name ends in .in_ext
InPaths(fs, options) ==
    {p \in DOMAIN fs :
        /\ StartsWith(p, options.base_dir \o <<"/">>)
        /\ EndsWith(p, <<".">> \o options.in_ext)
        /\ Len(p) >= Len(options.base_dir) + 1 + 1 + Len(options.in_ext)
        /\ Basename(p) = SubSeq(p, Len(options.base_dir) + 2, Len(p))
        /\ p[Len(options.base_dir) + 2] # "."}

\* The dict names of discover: name |-> path (of two paths with one name, one)
NamesOf(in_paths) ==
    [n \in {extract_env_name(p) : p \in in_paths} |->
        CHOOSE p \in in_paths : extract_env_name(p) = n]

EnvsOf(fs, names) ==
    {[name |-> n, refs |-> parse_references(fs[names[n]])] : n \in DOMAIN names}

\* discover: the environments of the files system fs, ordered by references
discover(fs, options) == order_by_refs(AsList(EnvsOf(fs, NamesOf(InPaths(fs, options)))))

\* recursive_refs, given refs_by_name and the names whose call is on the stack:
\* a name met again below itself recurses until RecursionError.
RECURSIVE RecursiveRefs(_, _, _)
RecursiveRefs(refs_by_name, name, stack) ==
    IF name \notin DOMAIN refs_by_name THEN [error |-> "KeyError", value |-> {}]
    ELSE IF name \in stack THEN [error |-> "RecursionError", value |-> {}]
    ELSE LET below == {RecursiveRefs(refs_by_name, ref, stack \cup {name}) :
                          ref \in refs_by_name[name]}
             raised == {r \in below : r.error # ""}
         IN  IF raised # {}
             THEN [error |-> (CHOOSE r \in raised : TRUE).error, value |-> {}]
             ELSE [error |-> "",
                   value |-> refs_by_name[name] \cup UNION {r.value : r \in below}]

\* The mutant: the direct references only.
recursive_refs_direct(envs, name) ==
    IF name \notin DOMAIN GraphOf(envs) THEN [error |-> "KeyError", value |-> {}]
    ELSE [error |-> "", value |-> GraphOf(envs)[name]]

recursive_refs(envs, name) == RecursiveRefs(GraphOf(envs), name, {})

(***************************************************************************)
(* reference_cluster                                                       *)
(***************************************************************************)

\* edges: one set {name, ref} for each reference of each environment
Edges(envs) ==
    Cat([k \in 1..Len(envs) |->
            [j \in 1..Len(SortedStrs(envs[k].refs)) |->
                {envs[k].name, SortedStrs(envs[k].refs)[j]}]])

\* The mutant: an edge that does not touch the cluster yet is dropped instead
\* of being kept for the next round.
RECURSIVE ClusterRound_forgets(_, _, _)
ClusterRound_forgets(edges, cluster, to_visit) ==
    IF edges = <<>> THEN [cluster |-> cluster, edges |-> to_visit]
    ELSE IF cluster \cap Head(edges) # {}
    THEN ClusterRound_forgets(Tail(edges), cluster \cup Head(edges), to_visit)
    ELSE ClusterRound_forgets(Tail(edges), cluster, to_visit)

\* One round of the while loop over the edges left: the cluster takes the edges
\* that touch it, the others wait for the next round.
RECURSIVE ClusterRound(_, _, _)
ClusterRound(edges, cluster, to_visit) ==
    IF edges = <<>> THEN [cluster |-> cluster, edges |-> to_visit]
    ELSE IF cluster \cap Head(edges) # {}
    THEN ClusterRound(Tail(edges), cluster \cup Head(edges), to_visit)
    ELSE ClusterRound(Tail(edges), cluster, Append(to_visit, Head(edges)))

\* while prev != cluster
RECURSIVE ClusterLoop(_, _, _)
ClusterLoop(prev, cluster, edges) ==
    IF prev = cluster THEN cluster
    ELSE ClusterLoop(cluster,
                     ClusterRound(edges, cluster, <<>>).cluster,
                     ClusterRound(edges, cluster, <<>>).edges)

reference_cluster(envs, name) == ClusterLoop({}, {name}, Edges(envs))

(***************************************************************************)
(* Specification: order_by_refs called on discover()'s list                *)
(***************************************************************************)

\* discover() lists the environments in the file system's glob order.
EnvLists(graph) ==
    LET up == SortedStrs(DOMAIN graph)
    IN  { [k \in 1..Len(up) |-> [name |-> up[k], refs |-> graph[up[k]]]],
          [k \in 1..Len(up) |->
              [name |-> up[Len(up) + 1 - k], refs |-> graph[up[Len(up) + 1 - k]]]] }

InitOrder ==
    /\ pc = "order_by_refs"
    /\ \E names \in SUBSET EnvNames \ {{}} :
       \E graph \in [names -> RefSets(EnvNames \cup {Other})] :
          args \in {[envs |-> l] : l \in EnvLists(graph)}
    /\ ret = NoRet
    /\ OPTIONS = NoOptions /\ files = <<>> /\ env_confs = <<>>
    /\ pinned_packages = <<>> /\ env = NoEnv /\ log = <<>> /\ history = <<>>

CallOrderByRefs ==
    /\ pc = "order_by_refs"
    /\ ret' = order_by_refs(args.envs)
    /\ pc' = "returned"
    /\ UNCHANGED <<args, OPTIONS, files, env_confs, pinned_packages, env, log,
                   history>>

NextOrder == CallOrderByRefs

SpecOrder == InitOrder /\ [][NextOrder]_vars

IndexOf(seq, name) == CHOOSE k \in 1..Len(seq) : seq[k].name = name

\* C2: for an acyclic reference graph over the discovered environments,
\* order_by_refs returns every environment exactly once, each one after all the
\* environments it references; {base: [], test: [base]} yields [base, test].
C2_TopologicalOrder ==
    (pc = "returned" /\ Acyclic(GraphOf(args.envs)) /\ Closed(GraphOf(args.envs)))
    => /\ ret.error = ""
       /\ Len(ret.value) = Len(args.envs)
       /\ \A e \in Range(args.envs) :
             Cardinality({k \in 1..Len(ret.value) : ret.value[k] = e}) = 1
       /\ \A a \in Range(args.envs) : \A b \in a.refs :
             IndexOf(ret.value, b) < IndexOf(ret.value, a.name)
       /\ (GraphOf(args.envs) = [n \in {Base, Test} |-> IF n = Test THEN {Base} ELSE {}])
             => ret.value = << [name |-> Base, refs |-> {}],
                               [name |-> Test, refs |-> {Base}] >>

\* A chain test -> local -> base, listed against its order, has been ordered.
C2_Witness ==
    /\ pc = "returned"
    /\ GraphOf(args.envs) =
          [n \in EnvNames |-> IF n = Test THEN {Local}
                              ELSE IF n = Local THEN {Base} ELSE {}]
    /\ args.envs[1].name = Test
    /\ ret.error = ""
    /\ ret.value[1].name = Base /\ ret.value[3].name = Test

(***************************************************************************)
(* Specification: merged_packages called on a table of published packages  *)
(***************************************************************************)

PkgX == <<"x">>
PkgY == <<"y">>

\* Bound: how many distinct versions a package can be resolved to.
MaxVersion == 2

VersionDigits == <<"1", "2", "3", "5">>
Versions == {<<VersionDigits[i]>> : i \in 1..MaxVersion}

\* The packages tables over a set of package names.
PackageMaps(pkgs) == UNION {[D -> Versions] : D \in SUBSET pkgs}

InitMerge ==
    /\ pc = "merged_packages"
    /\ args \in [env_packages : [EnvNames -> PackageMaps({PkgX, PkgY})],
                 names : SUBSET EnvNames]
    /\ ret = NoRet
    /\ OPTIONS = NoOptions /\ files = <<>> /\ env_confs = <<>>
    /\ pinned_packages = <<>> /\ env = NoEnv /\ log = <<>> /\ history = <<>>

CallMergedPackages ==
    /\ pc = "merged_packages"
    /\ LET r == merged_packages(args.env_packages, args.names)
       IN  /\ ret' = [error |-> r.error, value |-> r.value]
           /\ log' = log \o r.logged
    /\ pc' = "returned"
    /\ UNCHANGED <<args, OPTIONS, files, env_confs, pinned_packages, env, history>>

NextMerge == CallMergedPackages

SpecMerge == InitMerge /\ [][NextMerge]_vars

\* The versions the tables named by names hold for package p.
VersionsOf(tables, names, p) ==
    {tables[n][p] : n \in {m \in names : p \in DOMAIN tables[m]}}

PackagesOf(tables, names) == UNION {DOMAIN tables[n] : n \in names}

\* C3: merged_packages returns the union of the named tables when they share no
\* package or agree on every shared package; when a package has two different
\* versions in them it raises, having logged a conflict naming that package, and
\* returns no table; the tables of other environments never count.
C3_MergedPackages ==
    pc = "returned" =>
        LET t     == args.env_packages
            pkgs  == PackagesOf(t, args.names)
            clash == {p \in pkgs : Cardinality(VersionsOf(t, args.names, p)) > 1}
        IN  IF clash = {}
            THEN /\ ret.error = ""
                 /\ DOMAIN ret.value = pkgs
                 /\ \A p \in pkgs : VersionsOf(t, args.names, p) = {ret.value[p]}
                 /\ log = <<>>
            ELSE /\ ret.error = "RuntimeError"
                 /\ ret.value = <<>>
                 /\ \A p \in clash : \E k \in 1..Len(log) : log[k][1] = p
                 /\ \A k \in 1..Len(log) :
                       /\ log[k][1] \in clash
                       /\ log[k][2] # log[k][3]
                       /\ {log[k][2], log[k][3]} \subseteq
                              VersionsOf(t, args.names, log[k][1])

\* Two named tables agree on x, a third, not named, disagrees with them, one
\* named table alone has y, and the merge returned the union.
C3_Witness ==
    /\ pc = "returned"
    /\ args.names = {Base, Test}
    /\ PkgX \in DOMAIN args.env_packages[Base] \cap DOMAIN args.env_packages[Test]
                \cap DOMAIN args.env_packages[Local]
    /\ args.env_packages[Base][PkgX] = args.env_packages[Test][PkgX]
    /\ args.env_packages[Local][PkgX] # args.env_packages[Base][PkgX]
    /\ PkgY \in DOMAIN args.env_packages[Base] \ DOMAIN args.env_packages[Test]
    /\ ret.error = ""
    /\ ret.value[PkgX] = args.env_packages[Base][PkgX]

(***************************************************************************)
(* Specification: Environment.fix_pin called on one line of resolver output *)
(***************************************************************************)

PostSuffixes == {<<>>, <<".", "p", "o", "s", "t", "5">>}

Packages == {<<"p">>, <<"P", "q">>, <<"q">>}

HashTexts == {<<>>, <<" ">> \o HashFlag \o <<"a">>,
              <<" ", " ">> \o HashFlag \o <<"a">> \o <<" ">> \o HashFlag \o <<"b">>}

CommentTexts == {<<>>, <<" ", " ", "#", " ", "v", "i", "a", " ", "x">>}

\* A line of the pinned form, with the parts it was written from.
PinLine(package, base, post, hashes, comment) ==
    [kind |-> "pin", package |-> package, base |-> base, post |-> post,
     version |-> base \o post,
     line |-> package \o <<"=", "=">> \o base \o post \o hashes \o comment]

PinLines ==
    {PinLine(p, v, x, h, c) :
        p \in Packages, v \in Versions, x \in PostSuffixes,
        h \in HashTexts, c \in CommentTexts}

\* Lines of resolver output that are not of the pinned form.
OtherLines ==
    { [kind |-> "vcs", package |-> <<"p">>, base |-> <<>>, post |-> <<>>,
       version |-> <<>>,
       line |-> <<"-", "e", " ", "g", "i", "t", "+", "x", "#", "e", "g", "g", "=",
                  "p", "1">>],
      [kind |-> "other", package |-> <<>>, base |-> <<>>, post |-> <<>>,
       version |-> <<>>, line |-> <<"#", " ", "p", "~", "=", "1">>],
      [kind |-> "other", package |-> <<>>, base |-> <<>>, post |-> <<>>,
       version |-> <<>>, line |-> <<>>] }

\* The ignore sets: a version, the empty version of a source-controlled
\* package, or None.
IgnoreMaps ==
    UNION {[D -> Versions \cup {<<>>, None, <<"1", ".", "p", "o", "s", "t", "5">>}] :
              D \in SUBSET {<<"p">>, <<"q">>}}

PatternSets == {<<>>, << <<"p", "*">> >>, << <<"x">>, <<"q">> >>}

InitPin ==
    /\ pc = "fix_pin"
    /\ args \in PinLines \cup OtherLines
    /\ ret = NoRet
    /\ \E pats \in PatternSets :
          OPTIONS = [DefaultOptions EXCEPT !.compatible_patterns = pats]
    /\ \E ig \in IgnoreMaps, forbid \in BOOLEAN :
          env = Environment(Test, ig, forbid, FALSE)
    /\ files = <<>> /\ env_confs = <<>> /\ pinned_packages = <<>>
    /\ log = <<>> /\ history = <<>>

CallFixPin ==
    /\ pc = "fix_pin"
    /\ LET r == fix_pin(env, OPTIONS, args.line)
       IN  /\ ret' = [error |-> r.error, dropped |-> r.dropped, line |-> r.line]
           /\ env' = [env EXCEPT !.packages = r.packages]
           /\ log' = log \o r.logged
    /\ pc' = "returned"
    /\ UNCHANGED <<args, OPTIONS, files, env_confs, pinned_packages, history>>

NextPin == CallFixPin

SpecPin == InitPin /\ [][NextPin]_vars

\* C5: a pinned-form line whose package is in the ignore set is dropped, and its
\* package not recorded, when the ignore set holds None or the line's version
\* for it; when it holds another version, fix_pin raises, having logged the
\* package and both versions.  So no package of the ignore set gets into the
\* environment's output or table.
C5_IgnoredPackages ==
    (pc = "returned" /\ args.kind = "pin" /\ args.package \in DOMAIN env.ignore)
    => /\ env.packages = <<>>
       /\ IF env.ignore[args.package] \in {None, args.version}
          THEN ret.error = "" /\ ret.dropped /\ log = <<>>
          ELSE /\ ret.error = "RuntimeError"
               /\ ~ret.dropped /\ ret.line = <<>>
               /\ log = << <<args.package, args.version, env.ignore[args.package]>> >>

\* A line whose package the ignore set marks None has been dropped.
C5_Witness ==
    /\ pc = "returned" /\ args.kind = "pin"
    /\ args.package \in DOMAIN env.ignore
    /\ env.ignore[args.package] = None
    /\ args.post # <<>>
    /\ ret.dropped

\* The soft-pin patterns of PatternSets, read as what they say: a literal name,
\* or a prefix followed by *.
SoftPinned(package, patterns) ==
    \E k \in 1..Len(patterns) :
        LET pat == patterns[k]
        IN  IF pat[Len(pat)] = "*"
            THEN StartsWith(Lower(package), SubSeq(pat, 1, Len(pat) - 1))
            ELSE Lower(package) = pat

\* C7: a pinned-form line whose package is not in the ignore set is written with
\* ~= if the package matches a soft-pin pattern and with == if not, with its
\* version cut before .post if the environment forbids post-releases or the
\* package is soft-pinned, and exactly as resolved if not.
C7_PinPolicy ==
    (pc = "returned" /\ args.kind = "pin" /\ args.package \notin DOMAIN env.ignore)
    => LET soft     == SoftPinned(args.package, OPTIONS.compatible_patterns)
           version  == IF env.forbid_post \/ soft THEN args.base ELSE args.version
           expected == args.package
                       \o (IF soft THEN <<"~", "=">> ELSE <<"=", "=">>) \o version
       IN  /\ ret.error = "" /\ ~ret.dropped
           /\ StartsWith(ret.line, expected)
           /\ Len(ret.line) > Len(expected) => ret.line[Len(expected) + 1] = " "
           /\ env.packages = (args.package :> args.version)

\* pkg==V.post5 in an environment that forbids post-releases, not soft-pinned,
\* has been written as pkg==V.
C7_Witness ==
    /\ pc = "returned" /\ args.kind = "pin"
    /\ args.package \notin DOMAIN env.ignore
    /\ args.post # <<>> /\ env.forbid_post
    /\ ~SoftPinned(args.package, OPTIONS.compatible_patterns)
    /\ ret.line = args.package \o <<"=", "=">> \o args.base

(***************************************************************************)
(* Specification: a line is parsed, serialized as fix_lockfile writes it,   *)
(* and read again as fix_lockfile reads a file                              *)
(***************************************************************************)

\* Pinned lines whose comment ends in a backslash.
BackslashLines ==
    {PinLine(p, v, <<>>, h, <<" ", "#", "\\">>) :
        p \in Packages, v \in Versions, h \in HashTexts}

VcsLines == {l \in OtherLines : l.kind = "vcs"}

InitDep ==
    /\ pc = "Dependency"
    /\ args \in PinLines \cup BackslashLines \cup VcsLines
    /\ ret = NoRet
    /\ \E pats \in PatternSets :
          OPTIONS = [DefaultOptions EXCEPT !.compatible_patterns = pats]
    /\ env = NoEnv
    /\ files = <<>> /\ env_confs = <<>> /\ pinned_packages = <<>>
    /\ log = <<>> /\ history = <<>>

\* dep = Dependency(line)
CallDependency ==
    /\ pc = "Dependency"
    /\ ret' = [dep |-> Dependency(args.line)]
    /\ pc' = "serialize"
    /\ UNCHANGED <<args, OPTIONS, files, env_confs, pinned_packages, env, log, history>>

\* dep.serialize() + '\n', the text fix_lockfile writes for the line
CallSerialize ==
    /\ pc = "serialize"
    /\ ret.dep.valid
    /\ ret' = [dep |-> ret.dep,
               text |-> serialize(ret.dep, OPTIONS.compatible_patterns) \o <<"\n">>]
    /\ pc' = "concatenated"
    /\ UNCHANGED <<args, OPTIONS, files, env_confs, pinned_packages, env, log, history>>

\* What parsing the logical lines of the text gives: the Dependency of the one
\* line, when there is exactly one and reading did not raise.
Reparsed(logical) ==
    IF logical.error = "" /\ Len(logical.yielded) = 1
    THEN [error |-> "", count |-> 1, dep |-> Dependency(logical.yielded[1])]
    ELSE [error |-> logical.error, count |-> Len(logical.yielded),
          dep |-> Dependency(<<>>)]

\* [Dependency(line) for line in concatenated(fp)] on the text written
CallReparse ==
    /\ pc = "concatenated"
    /\ ret' = [dep |-> ret.dep, text |-> ret.text,
               again |-> Reparsed(concatenated(ret.text))]
    /\ pc' = "returned"
    /\ UNCHANGED <<args, OPTIONS, files, env_confs, pinned_packages, env, log, history>>

NextDep == CallDependency \/ CallSerialize \/ CallReparse

SpecDep == InitDep /\ [][NextDep]_vars

\* The text was read back as one valid line with the package, the version and
\* the hashes (one by one) of the Dependency it was written from.
RoundTrips ==
    /\ ret.again.error = "" /\ ret.again.count = 1
    /\ ret.again.dep.valid
    /\ ret.again.dep.package = ret.dep.package
    /\ ret.again.dep.version = ret.dep.version
    /\ SplitWs(ret.again.dep.hashes) = SplitWs(ret.dep.hashes)

EndsInBackslash(line) == line # <<>> /\ line[Len(line)] = "\\"

Write(fs, path, text) ==
    [p \in DOMAIN fs \cup {path} |-> IF p = path THEN text ELSE fs[p]]

\* What history keeps of a step: the operation, the environment, the text of
\* outfile before it (for create_lockfile, what the resolver wrote) and, where
\* the ignore set is computed, the references and the ignore set.
Event(op, name, text, refs, ignore) ==
    [op |-> op, name |-> name, text |-> text, refs |-> refs, ignore |-> ignore]

\* included_and_refs: the included names and what they reference, directly or
\* not; the error of a recursive_refs that raises.
IncludedAndRefs(envs, names) ==
    IF \E n \in names : recursive_refs(envs, n).error # ""
    THEN [error |-> recursive_refs(envs, CHOOSE n \in names :
                                       recursive_refs(envs, n).error # "").error,
          value |-> {}]
    ELSE [error |-> "",
          value |-> names \cup UNION {recursive_refs(envs, n).value : n \in names}]

NoConf == [name |-> <<>>, refs |-> {}]

\* recompile up to its loop, given the environments discovered and the names
\* included.
RecompileIncluded(confs, included) ==
    /\ env_confs' = confs
    /\ IF included.error # ""
       THEN /\ pc' = "failed"
            /\ ret' = [error |-> included.error]
            /\ UNCHANGED args
       ELSE /\ pc' = "loop"
            /\ args' = [index |-> 1,
                        base_header_text |->
                            IF OPTIONS.header_file # None /\ OPTIONS.header_file # <<>>
                            THEN files[OPTIONS.header_file] ELSE DEFAULT_HEADER,
                        hashed_by_reference |->
                            UNION {reference_cluster(confs, n) : n \in OPTIONS.add_hashes},
                        included_and_refs |-> included.value,
                        conf |-> NoConf]
            /\ UNCHANGED ret

RecompileDiscovered(d) ==
    IF d.error # ""
    THEN /\ pc' = "failed"
         /\ ret' = [error |-> d.error]
         /\ UNCHANGED <<args, env_confs>>
    ELSE RecompileIncluded(d.value, IncludedAndRefs(d.value, OPTIONS.include_names))

\* recompile, from its first line to the loop over env_confs
Recompile ==
    /\ pc = "recompile"
    /\ pinned_packages' = <<>>
    /\ RecompileDiscovered(discover(files, OPTIONS))
    /\ UNCHANGED <<OPTIONS, files, env, log, history>>

\* The loop has gone through env_confs: recompile returns.
Finish ==
    /\ pc = "loop"
    /\ args.index > Len(env_confs)
    /\ pc' = "done"
    /\ ret' = [error |-> ""]
    /\ UNCHANGED <<args, OPTIONS, files, env_confs, pinned_packages, env, log, history>>

Skipped(conf) ==
    args.included_and_refs # {} /\ conf.name \notin args.included_and_refs

\* continue: the environment is neither included nor referenced by one that is
Skip ==
    /\ pc = "loop"
    /\ args.index <= Len(env_confs)
    /\ Skipped(env_confs[args.index])
    /\ args' = [args EXCEPT !.index = @ + 1]
    /\ UNCHANGED <<pc, ret, OPTIONS, files, env_confs, pinned_packages, env, log, history>>

\* env = Environment(..., ignore=merged_packages(pinned_packages, rrefs), ...)
BeginIgnore(conf, rrefs, ignore) ==
    IF ignore.error # ""
    THEN /\ pc' = "failed"
         /\ ret' = [error |-> ignore.error]
         /\ log' = log \o ignore.logged
         /\ UNCHANGED <<args, env, history>>
    ELSE /\ pc' = "create_lockfile"
         /\ env' = Environment(conf.name, ignore.value,
                               conf.name \in OPTIONS.forbid_post,
                               conf.name \in args.hashed_by_reference)
         /\ args' = [args EXCEPT !.conf = conf]
         /\ history' = Append(history, Event("ignore", conf.name, <<>>, rrefs, ignore.value))
         /\ UNCHANGED <<ret, log>>

\* rrefs = recursive_refs(env_confs, conf['name'])
BeginRefs(conf, rrefs) ==
    IF rrefs.error # ""
    THEN /\ pc' = "failed"
         /\ ret' = [error |-> rrefs.error]
         /\ UNCHANGED <<args, env, log, history>>
    ELSE BeginIgnore(conf, rrefs.value, merged_packages(pinned_packages, rrefs.value))

\* The loop body up to the construction of the Environment
BeginEnv ==
    /\ pc = "loop"
    /\ args.index <= Len(env_confs)
    /\ ~Skipped(env_confs[args.index])
    /\ BeginRefs(env_confs[args.index],
                 recursive_refs(env_confs, env_confs[args.index].name))
    /\ UNCHANGED <<OPTIONS, files, env_confs, pinned_packages>>

\* What the resolver may write to outfile in a run.
RunOutputs ==
    { <<"p", "=", "=", "1", "\n">>,
      <<"p", "=", "=", "1", "\n", "q", "=", "=", "1", "\n">>,
      <<"p", "=", "=", "2", "\n", "q", "=", "=", "2", "\n">>,
      <<"q", "=", "=", "1", "\n", "p", "=", "=", "1", " ", "\\", "\n">> }

\* The mutant: what fix_lockfile raises is swallowed and the run goes on.
Fixed_goes_on(raw, fixed) ==
    /\ env' = fixed.e
    /\ history' = Append(history, Event("create_lockfile", env.name, raw, {}, <<>>))
    /\ pc' = "replace_header"
    /\ log' = log \o fixed.logged
    /\ files' = Write(files, outfile(OPTIONS, env.name), fixed.text)
    /\ UNCHANGED ret

\* create_lockfile when the resolver returned 0, having written raw to outfile:
\* fix_lockfile rewrites the file unless fixing a line raises.
Fixed(raw, fixed) ==
    /\ env' = fixed.e
    /\ history' = Append(history, Event("create_lockfile", env.name, raw, {}, <<>>))
    /\ IF fixed.error # ""
       THEN /\ pc' = "failed"
            /\ ret' = [error |-> fixed.error]
            /\ log' = log \o fixed.logged
            /\ files' = Write(files, outfile(OPTIONS, env.name), raw)
       ELSE /\ pc' = "replace_header"
            /\ files' = Write(files, outfile(OPTIONS, env.name), fixed.text)
            /\ UNCHANGED <<ret, log>>

\* env.create_lockfile(): the resolver runs; it exits non-zero, or writes one
\* of the outputs and exits 0.
CreateLockfile ==
    /\ pc = "create_lockfile"
    /\ \/ /\ pc' = "failed"
          /\ ret' = [error |-> "RuntimeError"]
          /\ log' = Append(log, <<env.name>>)
          /\ history' = Append(history, Event("create_lockfile", env.name, None, {}, <<>>))
          /\ UNCHANGED <<files, env>>
       \/ \E raw \in RunOutputs : Fixed(raw, fix_lockfile(env, OPTIONS, raw))
    /\ UNCHANGED <<args, OPTIONS, env_confs, pinned_packages>>

\* pinned_packages[conf['name']] = env.packages, and on to the next conf
Publish ==
    /\ pc = "publish"
    /\ pinned_packages' = [n \in DOMAIN pinned_packages \cup {env.name} |->
                              IF n = env.name THEN env.packages ELSE pinned_packages[n]]
    /\ args' = [args EXCEPT !.index = @ + 1]
    /\ history' = Append(history, Event("publish", env.name, <<>>, {}, <<>>))
    /\ pc' = "loop"
    /\ UNCHANGED <<ret, OPTIONS, files, env_confs, env, log>>

\* header_text = generate_hash_comment(env.infile) + base_header_text
\* env.replace_header(header_text)
ReplaceHeader ==
    /\ pc = "replace_header"
    /\ files' = Write(files, outfile(OPTIONS, env.name),
                      replace_header(files[outfile(OPTIONS, env.name)],
                                     generate_hash_comment(files[infile(OPTIONS, env.name)])
                                     \o args.base_header_text))
    /\ history' = Append(history,
                         Event("replace_header", env.name,
                               files[outfile(OPTIONS, env.name)], {}, <<>>))
    /\ pc' = "add_references"
    /\ UNCHANGED <<args, ret, OPTIONS, env_confs, pinned_packages, env, log>>

\* env.add_references(conf['refs'])
AddReferences ==
    /\ pc = "add_references"
    /\ files' = Write(files, outfile(OPTIONS, env.name),
                      add_references(OPTIONS, files[outfile(OPTIONS, env.name)],
                                     args.conf.refs))
    /\ history' = Append(history,
                         Event("add_references", env.name,
                               files[outfile(OPTIONS, env.name)], {}, <<>>))
    /\ pc' = "publish"
    /\ UNCHANGED <<args, ret, OPTIONS, env_confs, pinned_packages, env, log>>

(***************************************************************************)
(* Specification: the header and the references of one environment, from   *)
(* the state create_lockfile leaves                                        *)
(***************************************************************************)

\* The text of an input file that references the environments of refs.
InFileText(refs, rest) ==
    Cat([k \in 1..Len(SortedStrs(refs)) |->
            <<"-", "r", " ">> \o SortedStrs(refs)[k] \o <<".", "i", "n", "\n">>])
    \o rest

\* What the resolver may have written to outfile.
ResolverTexts ==
    { <<>>,
      <<"#", " ", "p", "c", "\n">>,
      <<"#", "\n", "#", " ", "p", "c", "\n", "#", "\n", "p", "=", "=", "1", "\n">>,
      <<"p", "=", "=", "1", "\n">>,
      <<"#", " ", "p", "c", "\n", "\n", "q", "=", "=", "2", "\n">>,
      <<"#", " ", "p", "c", "\n", "p", "=", "=", "1", " ", "\\", "\n", " ",
         " ", " ", " ", "-", "-", "h", "a", "s", "h", "=", "a", "\n", " ",
         " ", " ", " ", "#", " ", "v", "i", "a", " ", "x", "\n", "q", "=",
         "=", "1", "\n">> }

HeaderPath == <<"h">>

\* Custom header texts: comment lines, a last line without its newline, a
\* blank line between comment lines, nothing.
CustomHeaders ==
    { <<"#", " ", "a", "\n">>,
      <<"#", " ", "a">>,
      <<"#", " ", "a", "\n", "\n", "#", " ", "b", "\n">>,
      <<>> }

\* The state after env.create_lockfile() on the resolver's text raw.
LockedEnv(e, conf, in_text, raw, header) ==
    /\ env = fix_lockfile(e, DefaultOptions, raw).e
    /\ files = (infile(DefaultOptions, e.name) :> in_text)
               @@ (outfile(DefaultOptions, e.name) :>
                      fix_lockfile(e, DefaultOptions, raw).text)
    /\ args = [conf |-> conf, base_header_text |-> header]
    /\ history = <<Event("create_lockfile", e.name, raw, {}, <<>>)>>

InitEnv ==
    /\ pc = "replace_header"
    /\ OPTIONS = DefaultOptions
    /\ \E refs \in RefSets(EnvNames \ {Test}),
          rest \in {<<"p", "\n">>, <<"p", "\n", "\n">>},
          raw \in ResolverTexts,
          header \in CustomHeaders \cup {DEFAULT_HEADER} :
          LockedEnv(Environment(Test, <<>>, FALSE, FALSE),
                    [name |-> Test, refs |-> parse_references(InFileText(refs, rest))],
                    InFileText(refs, rest), raw, header)
    /\ ret = NoRet /\ env_confs = <<>> /\ pinned_packages = <<>> /\ log = <<>>

NextEnv == ReplaceHeader \/ AddReferences

SpecEnv == InitEnv /\ [][NextEnv]_vars

\* The text from the first line that does not start with #.
RECURSIVE AfterComments(_)
AfterComments(text) ==
    IF text # <<>> /\ Head(text) = "#"
    THEN AfterComments(SubSeq(text, Find(text \o <<"\n">>, <<"\n">>) + 2, Len(text)))
    ELSE text

\* The digest tag line of environment name's input file.
DigestTag(name) ==
    <<"#", " ", "S", "H", "A", "1", ":">>
    \o sha1_hexdigest(Strip(files[infile(OPTIONS, name)])) \o <<"\n">>

LastEvent == history[Len(history)]

\* C8 (as amended): after the header is replaced, the artifact is the digest
\* tag line of the input file, then the caller-supplied header text, then the
\* text that followed the leading comment lines of the artifact before: the
\* digest tag comes first, and none of the previous header lines remain.
C8_DigestThenHeader ==
    pc = "add_references"
    => files[outfile(OPTIONS, env.name)]
         = DigestTag(env.name) \o args.base_header_text \o AfterComments(LastEvent.text)

\* The three comment lines the resolver wrote have been replaced by the digest
\* tag and the default header, before the one dependency line.
C8_Witness ==
    /\ pc = "add_references"
    /\ args.base_header_text = DEFAULT_HEADER
    /\ Len(Lines(LastEvent.text)) = 4
    /\ Len(Lines(AfterComments(LastEvent.text))) = 1
    /\ Len(Lines(files[outfile(OPTIONS, env.name)])) = 8
    /\ StartsWith(files[outfile(OPTIONS, env.name)], <<"#", " ", "S", "H", "A", "1", ":">>)

\* C8 as the claim states it: the header text, immediately followed by the
\* digest tag line, then the body.
C8_HeaderThenDigest ==
    pc = "add_references"
    => files[outfile(OPTIONS, env.name)]
         = args.base_header_text \o DigestTag(env.name) \o AfterComments(LastEvent.text)


\* The inclusion directives of the environments of refs, ascending by name.
Directives(refs) ==
    Cat([k \in 1..Len(SortedStrs(refs)) |->
            <<"-", "r", " ">> \o SortedStrs(refs)[k] \o <<".">> \o OPTIONS.out_ext
            \o <<"\n">>])

\* The text of environment name's artifact before its header was replaced.
BeforeHeader(name) ==
    history[CHOOSE k \in 1..Len(history) :
                history[k].op = "replace_header" /\ history[k].name = name].text

\* C9 as the claim states it: after the references are added, the artifact is
\* the complete header (the digest tag and all of the header text), then one
\* inclusion directive for each direct reference in ascending name order, then
\* the dependency lines, whatever the header text; with no references the
\* artifact is left as it was.
C9_HeaderReferencesBody ==
    pc = "publish"
    => /\ files[outfile(OPTIONS, env.name)]
            = DigestTag(env.name) \o args.base_header_text
              \o Directives(args.conf.refs) \o AfterComments(BeforeHeader(env.name))
       /\ args.conf.refs = {} => files[outfile(OPTIONS, env.name)] = LastEvent.text

\* A line of the custom header stands after an inclusion directive.
C9_HeaderAfterDirective ==
    /\ pc = "publish"
    /\ args.base_header_text = <<"#", " ", "a", "\n", "\n", "#", " ", "b", "\n">>
    /\ args.conf.refs = {Base}
    /\ \E i, j \in 1..Len(Lines(files[outfile(OPTIONS, env.name)])) :
          /\ i < j
          /\ Lines(files[outfile(OPTIONS, env.name)])[i] = Directives({Base})
          /\ Lines(files[outfile(OPTIONS, env.name)])[j] = <<"#", " ", "b", "\n">>


(***************************************************************************)
(* verify, one step of its loop at a time                                  *)
(***************************************************************************)

\* env_confs = discover(...); success = True
VerifyDiscover ==
    /\ pc = "verify"
    /\ IF discover(files, OPTIONS).error # ""
       THEN /\ pc' = "failed"
            /\ ret' = [error |-> discover(files, OPTIONS).error]
            /\ UNCHANGED <<args, env_confs>>
       ELSE /\ pc' = "verify_loop"
            /\ env_confs' = discover(files, OPTIONS).value
            /\ args' = [index |-> 1, success |-> TRUE]
            /\ UNCHANGED ret
    /\ UNCHANGED <<OPTIONS, files, pinned_packages, env, log, history>>

\* The body of the loop, given the two comments: the else branch logs the
\* expected comment, then strips the found one, which raises when it is None.
VerifyCompare(name, current_comment, existing_comment) ==
    /\ env' = Environment(name, <<>>, FALSE, FALSE)
    /\ history' = Append(history, Event("verify", name, <<>>, {}, <<>>))
    /\ IF current_comment = existing_comment
       THEN /\ args' = [args EXCEPT !.index = @ + 1]
            /\ UNCHANGED <<pc, ret, log>>
       ELSE IF existing_comment = None
       THEN /\ pc' = "failed"
            /\ ret' = [error |-> "AttributeError"]
            /\ log' = Append(log, <<name, Strip(current_comment)>>)
            /\ UNCHANGED args
       ELSE /\ args' = [index |-> args.index + 1, success |-> FALSE]
            /\ log' = Append(log, <<name, Strip(current_comment), Strip(existing_comment)>>)
            /\ UNCHANGED <<pc, ret>>

\* for conf in env_confs: ...
VerifyEnv ==
    /\ pc = "verify_loop"
    /\ args.index <= Len(env_confs)
    /\ VerifyCompare(env_confs[args.index].name,
                     generate_hash_comment(
                         files[infile(OPTIONS, env_confs[args.index].name)]),
                     parse_hash_comment(
                         files[outfile(OPTIONS, env_confs[args.index].name)]))
    /\ UNCHANGED <<OPTIONS, files, env_confs, pinned_packages>>

\* if not success: ctx.exit(1)
VerifyExit ==
    /\ pc = "verify_loop"
    /\ args.index > Len(env_confs)
    /\ pc' = "done"
    /\ ret' = [error |-> "", exit |-> IF args.success THEN 0 ELSE 1]
    /\ UNCHANGED <<args, OPTIONS, files, env_confs, pinned_packages, env, log, history>>

(***************************************************************************)
(* Specification: verify over input files and the artifacts beside them    *)
(***************************************************************************)

\* The artifacts an input file of text in_text may have beside it: locked from
\* this text (up to white space around it), locked from another text, or
\* without a hash comment.
Artifacts(in_text) ==
    { generate_hash_comment(<<"\n">> \o in_text) \o <<"#", " ", "a", "\n", "p", "=", "=", "1", "\n">>,
      generate_hash_comment(<<"q", "\n">>) \o <<"#", " ", "a", "\n", "p", "=", "=", "1", "\n">>,
      <<"#", " ", "a", "\n", "p", "=", "=", "1", "\n">> }

\* The files of the environments of graph g, each with the artifact out[n].
FilesOf(g, out) ==
    [p \in {infile(DefaultOptions, n) : n \in DOMAIN g}
           \cup {outfile(DefaultOptions, n) : n \in DOMAIN g} |->
        IF \E n \in DOMAIN g : p = infile(DefaultOptions, n)
        THEN InFileText(g[extract_env_name(p)], <<"p", "\n">>)
        ELSE out[extract_env_name(p)]]

InitVerify ==
    /\ pc = "verify"
    /\ OPTIONS = DefaultOptions
    /\ \E g \in [EnvNames -> RefSets(EnvNames)] :
          /\ Acyclic(g)
          /\ \E out \in [EnvNames -> UNION {Artifacts(InFileText(g[n], <<"p", "\n">>)) :
                                              n \in EnvNames}] :
                /\ \A n \in EnvNames : out[n] \in Artifacts(InFileText(g[n], <<"p", "\n">>))
                /\ files = FilesOf(g, out)
    /\ args = <<>> /\ ret = NoRet /\ env_confs = <<>> /\ pinned_packages = <<>>
    /\ env = NoEnv /\ log = <<>> /\ history = <<>>

NextVerify == VerifyDiscover \/ VerifyEnv \/ VerifyExit

SpecVerify == InitVerify /\ [][NextVerify]_vars

\* The environments that have an input file.
InputNames == {extract_env_name(p) : p \in InPaths(files, OPTIONS)}

\* The artifact of environment name does not carry the digest of its input.
Mismatched(name) ==
    \A k \in 1..Len(Lines(files[outfile(OPTIONS, name)])) :
        Lines(files[outfile(OPTIONS, name)])[k] # DigestTag(name)

Checked(name) == \E k \in 1..Len(history) : history[k] = Event("verify", name, <<>>, {}, <<>>)

\* C6 as the claim states it: verify never raises, whatever the artifacts
\* carry; when it ends every environment has been checked, a mismatch has been
\* reported for the mismatched environments only, and the exit code is
\* non-zero exactly when some environment mismatched.
C6_VerifyChecksAll ==
    /\ pc # "failed"
    /\ pc = "done"
       => /\ \A n \in InputNames : Checked(n)
          /\ \A n \in InputNames : Mismatched(n) <=> \E k \in 1..Len(log) : log[k][1] = n
          /\ ret.exit # 0 <=> \E n \in InputNames : Mismatched(n)

\* verify has raised on an artifact without a hash comment while an environment
\* later in the order, whose artifact is stale, was never checked.
C6_Unchecked ==
    /\ pc = "failed" /\ ret.error = "AttributeError"
    /\ \E n \in InputNames : ~Checked(n) /\ Mismatched(n)
                              /\ parse_hash_comment(files[outfile(OPTIONS, n)]) # None


(***************************************************************************)
(* Specification: recompile over the input files of three environments     *)
(***************************************************************************)

\* The command lines explored: none of the options; one environment included,
\* with hashes and a custom header; an included name that no file has; post
\* releases forbidden and a soft-pin pattern.
RunOptions ==
    { DefaultOptions,
      [DefaultOptions EXCEPT !.include_names = {Test}, !.add_hashes = {Test},
                             !.header_file = HeaderPath],
      [DefaultOptions EXCEPT !.include_names = {Other}],
      [DefaultOptions EXCEPT !.forbid_post = {Base},
                             !.compatible_patterns = << <<"q">> >>] }

InitRun ==
    /\ pc = "recompile"
    /\ OPTIONS \in RunOptions
    /\ \E g \in [EnvNames -> RefSets(EnvNames \cup {Other})] :
          files = (HeaderPath :> <<"#", " ", "a", "\n">>)
                  @@ [p \in {infile(DefaultOptions, n) : n \in EnvNames} |->
                         InFileText(g[extract_env_name(p)], <<"p", "\n">>)]
    /\ args = <<>> /\ ret = NoRet /\ env_confs = <<>> /\ pinned_packages = <<>>
    /\ env = NoEnv /\ log = <<>> /\ history = <<>>

NextRun ==
    \/ Recompile \/ Finish \/ Skip \/ BeginEnv \/ CreateLockfile
    \/ ReplaceHeader \/ AddReferences \/ Publish

SpecRun == InitRun /\ [][NextRun]_vars


\* The step op of environment n is in history, at HistoryIndex(op, n).
Has(op, n) == \E j \in 1..Len(history) : history[j].op = op /\ history[j].name = n

HistoryIndex(op, n) ==
    CHOOSE j \in 1..Len(history) : history[j].op = op /\ history[j].name = n

\* Environment n went through its whole pipeline before step k of history.
Completed(n, k) ==
    /\ Has("ignore", n) /\ Has("create_lockfile", n) /\ Has("replace_header", n)
    /\ Has("add_references", n) /\ Has("publish", n)
    /\ HistoryIndex("ignore", n) < HistoryIndex("create_lockfile", n)
    /\ HistoryIndex("create_lockfile", n) < HistoryIndex("replace_header", n)
    /\ HistoryIndex("replace_header", n) < HistoryIndex("add_references", n)
    /\ HistoryIndex("add_references", n) < HistoryIndex("publish", n)
    /\ HistoryIndex("publish", n) < k

\* The ignore set ignore is the union of the published tables of the
\* environments of names.
UnionOfTables(ignore, names) ==
    /\ names \subseteq DOMAIN pinned_packages
    /\ DOMAIN ignore = UNION {DOMAIN pinned_packages[n] : n \in names}
    /\ \A n \in names : \A p \in DOMAIN pinned_packages[n] :
          ignore[p] = pinned_packages[n][p]

\* Where an ignore set was computed, it came from the tables of exactly the
\* environments reachable over references, each through with its pipeline; no
\* table was published twice.
IgnoreFromClosure ==
    /\ \A k \in 1..Len(history) :
          history[k].op = "ignore"
          => /\ history[k].refs = Reach(GraphOf(env_confs), history[k].name)
             /\ history[k].name \notin history[k].refs
             /\ UnionOfTables(history[k].ignore, history[k].refs)
             /\ \A n \in history[k].refs : Completed(n, k)
    /\ \A i, j \in 1..Len(history) :
          (history[i].op = "publish" /\ history[j].op = "publish"
           /\ history[i].name = history[j].name) => i = j
    /\ DOMAIN pinned_packages
         = {history[k].name : k \in {j \in 1..Len(history) : history[j].op = "publish"}}

\* A published table stays, as published.
TablesKept ==
    \A n \in DOMAIN pinned_packages :
        n \in DOMAIN pinned_packages' /\ pinned_packages'[n] = pinned_packages[n]

\* C1: in a lock run, the ignore set of every environment that gets locked is
\* built from the published tables of exactly the environments in the
\* transitive closure of its references (itself excluded), each of which has
\* completed its whole pipeline before; every table is published at most once
\* and never modified afterwards; also when only some names are requested.
C1_IgnoreFromClosure == []IgnoreFromClosure /\ [][TablesKept]_vars

\* With only test requested, local was skipped, and test, which references
\* local's other reference base, was locked ignoring what base published; or,
\* with nothing requested, local was locked ignoring the tables of test and of
\* base, which it references through test only.
C1_Witness ==
    \/ /\ pc = "done" /\ OPTIONS.include_names = {Test}
       /\ Has("ignore", Test) /\ ~Has("ignore", Local)
       /\ history[HistoryIndex("ignore", Test)].refs = {Base}
       /\ history[HistoryIndex("ignore", Test)].ignore # <<>>
    \/ /\ pc = "done" /\ OPTIONS.include_names = {}
       /\ GraphOf(env_confs)[Local] = {Test}
       /\ history[HistoryIndex("ignore", Local)].refs = {Base, Test}
       /\ pinned_packages[Base] # <<>> /\ pinned_packages[Test] # <<>>
       /\ DOMAIN history[HistoryIndex("ignore", Local)].ignore
            = DOMAIN pinned_packages[Base] \cup DOMAIN pinned_packages[Test]

\* The packages that have two versions in the published tables of names.
MergeConflicts(names) ==
    {p \in UNION {DOMAIN pinned_packages[n] : n \in names} :
        \E n, m \in names :
            /\ p \in DOMAIN pinned_packages[n] /\ p \in DOMAIN pinned_packages[m]
            /\ pinned_packages[n][p] # pinned_packages[m][p]}

\* The pinned lines of the resolver's text whose package the ignore set holds
\* with another version.
LineConflicts(raw, ignore) ==
    {d \in {Dependency(Strip(Lines(raw)[k])) : k \in 1..Len(Lines(raw))} :
        /\ d.valid /\ d.package \in DOMAIN ignore
        /\ ignore[d.package] # None /\ ignore[d.package] # d.version}

Reported(package) == \E k \in 1..Len(log) : Len(log[k]) = 3 /\ log[k][1] = package

\* C4 as the claim states it: when a run aborts on a version conflict, every
\* package in conflict at that point has been reported, at merge time and at
\* line-transform time alike.
C4_EveryConflictReported ==
    (pc = "failed" /\ ret.error = "RuntimeError")
    => IF history # <<>> /\ LastEvent.op = "create_lockfile"
       THEN LastEvent.text # None
            => \A d \in LineConflicts(LastEvent.text, env.ignore) :
                  /\ Reported(d.package)
                  /\ \E k \in 1..Len(log) :
                        log[k] = <<d.package, d.version, env.ignore[d.package]>>
       ELSE \A p \in MergeConflicts(Reach(GraphOf(env_confs),
                                          env_confs[args.index].name)) :
               Reported(p)

\* The run aborted on the first of two conflicting lines: the second package in
\* conflict is in no report.
C4_SecondConflictUnreported ==
    /\ pc = "failed" /\ ret.error = "RuntimeError"
    /\ history # <<>> /\ LastEvent.op = "create_lockfile" /\ LastEvent.text # None
    /\ Cardinality(LineConflicts(LastEvent.text, env.ignore)) = 2
    /\ Len(log) = 1


(***************************************************************************)
(* Specification: reference_cluster, one round of its while loop at a time, *)
(* then called again on a member of the result                              *)
(***************************************************************************)

InitCluster ==
    /\ pc = "reference_cluster"
    /\ \E names \in SUBSET EnvNames \ {{}} :
       \E graph \in [names -> RefSets(EnvNames \cup {Other})] :
       \E l \in EnvLists(graph), n \in EnvNames \cup {Other} :
          args = [envs |-> l, name |-> n]
    /\ ret = NoRet
    /\ OPTIONS = NoOptions /\ files = <<>> /\ env_confs = <<>>
    /\ pinned_packages = <<>> /\ env = NoEnv /\ log = <<>> /\ history = <<>>

\* edges = [...]; prev, cluster = set(), set([name])
ClusterBegin ==
    /\ pc = "reference_cluster"
    /\ ret' = [prev |-> {}, cluster |-> {args.name}, edges |-> Edges(args.envs)]
    /\ pc' = "while"
    /\ UNCHANGED <<args, OPTIONS, files, env_confs, pinned_packages, env, log, history>>

\* One pass through the body of `while prev != cluster`; history keeps the
\* cluster each pass started from.
ClusterWhile ==
    /\ pc = "while"
    /\ ret.prev # ret.cluster
    /\ ret' = [prev |-> ret.cluster,
               cluster |-> ClusterRound(ret.edges, ret.cluster, <<>>).cluster,
               edges |-> ClusterRound(ret.edges, ret.cluster, <<>>).edges]
    /\ history' = Append(history, ret.cluster)
    /\ UNCHANGED <<pc, args, OPTIONS, files, env_confs, pinned_packages, env, log>>

\* return cluster
ClusterReturn ==
    /\ pc = "while"
    /\ ret.prev = ret.cluster
    /\ ret' = [value |-> ret.cluster]
    /\ pc' = "returned"
    /\ UNCHANGED <<args, OPTIONS, files, env_confs, pinned_packages, env, log, history>>

\* reference_cluster(envs, m) for a member m of the cluster returned
ClusterOfMember ==
    /\ pc = "returned"
    /\ \E m \in ret.value :
          ret' = [value |-> ret.value, member |-> m,
                  again |-> reference_cluster(args.envs, m)]
    /\ pc' = "compared"
    /\ UNCHANGED <<args, OPTIONS, files, env_confs, pinned_packages, env, log, history>>

NextCluster == ClusterBegin \/ ClusterWhile \/ ClusterReturn \/ ClusterOfMember

SpecCluster == InitCluster /\ [][NextCluster]_vars

\* The names one reference edge away from a name of S, in either direction.
Adjacent(envs, S) ==
    UNION {envs[k].refs : k \in {j \in 1..Len(envs) : envs[j].name \in S}}
    \cup {envs[k].name : k \in {j \in 1..Len(envs) : envs[j].refs \cap S # {}}}

\* The names connected to those of S by reference edges taken in either
\* direction, by fixpoint.
RECURSIVE Connected(_, _)
Connected(envs, S) ==
    IF Adjacent(envs, S) \subseteq S THEN S ELSE Connected(envs, S \cup Adjacent(envs, S))

\* What reference_cluster returned is the set of names connected to name, and
\* on a member of it reference_cluster returns the same set.
ClusterIsComponent ==
    /\ pc \in {"returned", "compared"}
       => /\ ret.value = Connected(args.envs, {args.name})
          /\ args.name \in ret.value
    /\ pc = "compared" => ret.again = ret.value

\* Each pass of the loop either adds a name to the cluster or is the last one.
ClusterGrows ==
    (pc = "while" /\ pc' = "while")
    => /\ ret.cluster \subseteq ret'.cluster
       /\ ret'.cluster # ret.cluster \/ ret'.prev = ret'.cluster

\* The loop makes no more passes than there are names connected to name, and
\* until both calls have returned there is a step to take: the loop either
\* goes on or returns, and the cluster returned has a member to call it on.
ClusterTerminates ==
    /\ Len(history) <= Cardinality(Connected(args.envs, {args.name}))
    /\ pc \in {"reference_cluster", "while", "returned", "compared"}
    /\ pc = "returned" => ret.value # {}

\* C11: for every reference graph and every name n, reference_cluster(n)
\* terminates and returns exactly the names connected to n by reference edges
\* taken in either direction, n included; for every member m of the result,
\* reference_cluster(m) is the same set.
C11_ReferenceCluster ==
    /\ []ClusterIsComponent
    /\ []ClusterTerminates
    /\ [][ClusterGrows]_vars

\* From base the loop took two passes that grew the cluster (the edge between
\* local and test waited for the one between test and base) and a last pass
\* that did not; called on local, the other end, it returned the same three
\* names.
C11_Witness ==
    /\ pc = "compared"
    /\ args.name = Base /\ ret.member = Local
    /\ history = <<{Base}, {Base, Test}, {Base, Local, Test}>>
    /\ ret.again = {Base, Local, Test}


\* The resolver's text ends with a backslash: its last line is to be continued.
EndsMidContinuation(raw) == Strip(raw) # <<>> /\ Strip(raw)[Len(Strip(raw))] = "\\"

\* The resolver did not lock the environment of event e cleanly: it exited
\* non-zero, or its text has a line in conflict with the ignore set the
\* environment was given, or ends mid-continuation.
Unclean(e) ==
    \/ e.text = None
    \/ EndsMidContinuation(e.text)
    \/ LineConflicts(e.text, history[HistoryIndex("ignore", e.name)].ignore) # {}

\* No line of the text is a digest tag or an inclusion directive.
Unstamped(text) ==
    \A k \in 1..Len(Lines(text)) :
        /\ ~StartsWith(Lines(text)[k], <<"#", " ", "S", "H", "A", "1", ":">>)
        /\ ~StartsWith(Lines(text)[k], <<"-", "r">>)

\* The environment the loop of recompile is at.
Current == env_confs[args.index]

\* An unclean resolver run is the last thing that happened, and the run has
\* failed; a failed run has not published the table of the environment it
\* was at, nor stamped its artifact, nor begun any later environment; a run
\* that is done has locked every environment it did not skip, cleanly.
RunFailsWhole ==
    /\ \A k \in 1..Len(history) :
          (history[k].op = "create_lockfile" /\ Unclean(history[k]))
          => k = Len(history) /\ pc = "failed"
    /\ (pc = "failed" /\ args # <<>>)
       => /\ Current.name \notin DOMAIN pinned_packages
          /\ ~Has("replace_header", Current.name)
          /\ ~Has("add_references", Current.name)
          /\ ~Has("publish", Current.name)
          /\ outfile(OPTIONS, Current.name) \in DOMAIN files
             => Unstamped(files[outfile(OPTIONS, Current.name)])
          /\ \A k \in (args.index + 1)..Len(env_confs) :
                /\ ~Has("ignore", env_confs[k].name)
                /\ ~Has("create_lockfile", env_confs[k].name)
                /\ outfile(OPTIONS, env_confs[k].name) \notin DOMAIN files
    /\ pc = "done"
       => /\ log = <<>>
          /\ \A k \in 1..Len(env_confs) :
                ~Skipped(env_confs[k])
                => /\ Completed(env_confs[k].name, Len(history) + 1)
                   /\ ~Unclean(history[HistoryIndex("create_lockfile", env_confs[k].name)])
                   /\ env_confs[k].name \in DOMAIN pinned_packages

\* A failed run takes no further step, and the loop, at an environment whose
\* references published two versions of a package, fails at that step.
FailureStops ==
    /\ pc # "failed"
    /\ (/\ pc = "loop" /\ args.index <= Len(env_confs) /\ ~Skipped(Current)
        /\ MergeConflicts(Reach(GraphOf(env_confs), Current.name)
                          \cap DOMAIN pinned_packages) # {})
       => pc' = "failed"

\* C12: if, while an environment is locked, the resolver exits non-zero, a
\* version conflict is detected or the resolver's output ends mid-continuation,
\* the run fails there: the environment's table is never published, its
\* artifact gets no provenance header and no inclusion directives, and the
\* resolver is never invoked for a later environment; a run completes only if
\* every requested environment locked cleanly.
C12_FailureAbortsRun == []RunFailsWhole /\ [][FailureStops]_vars

\* The second environment's resolver text ended mid-continuation after a line
\* that was recorded: the run failed with the first environment published,
\* the second not, and a third never begun.
C12_Witness ==
    /\ pc = "failed" /\ args # <<>> /\ args.index = 2 /\ Len(env_confs) = 3
    /\ LastEvent.op = "create_lockfile" /\ LastEvent.text # None
    /\ EndsMidContinuation(LastEvent.text)
    /\ env.packages # <<>> /\ log = <<>>
    /\ DOMAIN pinned_packages = {env_confs[1].name}
    /\ files[outfile(OPTIONS, Current.name)] = LastEvent.text

====
